---- MODULE Spec2Model ----
(***************************************************************************)
(* CloudDNS provider of lego: the API client (providers/dns/clouddns) in   *)
(* its two versions, Client (client.go) and cloudDnsClient (the earlier    *)
(* draft), driven one helper call at a time against an HTTP peer that may  *)
(* answer every request in any way.                                        *)
(*                                                                         *)
(* Strings that the code builds with fmt.Sprintf are sequences of their    *)
(* parts; a JSON document is a record [shape, val]; a Go error is a record *)
(* [kind, text]; a panic (failed type assertion, index out of range) is    *)
(* the error value of kind "panic", which unwinds the whole operation.     *)
(***************************************************************************)
EXTENDS Integers, Sequences, FiniteSets, TLC

\* ------------------------------------------------------------ bounds
\* Longest lastDomainRecordList the peer returns.
MaxList == 2
\* Longest items array the peer returns to a domain search.
MaxItems == 2
\* The longest record list the provider is made to hold.
MaxRecords == 3

\* ------------------------------------------------------------ constants
apiBaseURL == "https://admin.vshosting.cloud/clouddns"
loginURL == "https://admin.vshosting.cloud/api/public/auth/login"

Variants == {"Client", "cloudDnsClient"}

\* Values the model draws its inputs from.
ClientIDs == {"client-1"}
Emails == {"user@example.com"}
Passwords == {"secret"}
TTLs == {300, 60}
Zones == {"example.com."}
Names == {"_acme-challenge.example.com.", "www.example.com."}
Values == {"abc123"}
Tokens == {"", "tok-A", "tok-B"}
DomainIDs == {"dom-1", "dom-2"}
RecordTypes == {"TXT", "A"}

\* ------------------------------------------------------------ errors
NoErr == [kind |-> "nil", text |-> <<>>]
Panic(why) == [kind |-> "panic", text |-> <<why>>]
TransportErr == [kind |-> "transport", text |-> <<"connection refused">>]
ReadErr == [kind |-> "read", text |-> <<"unexpected EOF">>]
JSONErr == [kind |-> "json", text |-> <<"invalid character">>]

Failed(e) == e.kind # "nil"

\* ------------------------------------------------------------ JSON values
\* A JSON document is [shape, val]: shape names the members it has, val holds
\* their values. A body that is no JSON document has shape "garbage"; val
\* holds its raw bytes, in pieces: a piece is a run of plain characters or
\* one character that %q escapes.
Garbage == [shape |-> "garbage", val |-> <<"<html lang=", "\"", "en", "\"", ">", "\n">>]
\* A JSON object without any of the members the client looks for.
EmptyObject == [shape |-> "object", val |-> <<>>]
AuthBody(t) == [shape |-> "auth", val |-> <<t>>]
ErrorBody(code, msg) == [shape |-> "error", val |-> <<code, msg>>]
ItemsBody(items) == [shape |-> "items", val |-> items]
RecordsBody(list) == [shape |-> "records", val |-> list]

\* An element of items: its "id" member, a JSON string or not (a number).
Items == [id : DomainIDs, isString : {TRUE}] \cup [id : {"7"}, isString : {FALSE}]

SeqsUpTo(S, n) == UNION {[1..k -> S] : k \in 0..n}

RecordIDAt(i) == <<"rec-1", "rec-2", "rec-3", "rec-4", "rec-5", "rec-6">>[i]

\* An element of lastDomainRecordList. The peer gives the i-th entry the id
\* rec-i; it writes the ids of a list as JSON strings, or all as numbers.
EntryShapes == [name : Names, type : RecordTypes]

WithIDs(shapes, idIsString) ==
  [i \in 1..Len(shapes) |->
     [id |-> RecordIDAt(i), name |-> shapes[i].name, type |-> shapes[i].type,
      idIsString |-> idIsString]]

RecordLists == {WithIDs(s, b) : s \in SeqsUpTo(EntryShapes, MaxList), b \in BOOLEAN}

\* ------------------------------------------------------------ HTTP responses
\* kind "transport": HTTPClient.Do returned an error. Otherwise a status, a
\* body, and whether the body can be read to its end.
Response(status, readOK, body) ==
  [kind |-> "http", status |-> status, readOK |-> readOK, body |-> body]

NoResponse == [kind |-> "transport", status |-> 0, readOK |-> FALSE, body |-> EmptyObject]

ErrorResponses ==
  { NoResponse,
    Response(403, TRUE, ErrorBody("FORBIDDEN", "no access")),
    Response(500, TRUE, Garbage),
    Response(401, FALSE, Garbage) }

MalformedResponses ==
  { Response(200, TRUE, Garbage),
    Response(200, TRUE, EmptyObject),
    Response(200, FALSE, EmptyObject) }

LoginResponses ==
  ErrorResponses \cup MalformedResponses
    \cup {Response(200, TRUE, AuthBody(t)) : t \in Tokens}

SearchResponses ==
  ErrorResponses \cup MalformedResponses
    \cup {Response(200, TRUE, ItemsBody(l)) : l \in SeqsUpTo(Items, MaxItems)}

DetailResponses ==
  ErrorResponses \cup MalformedResponses
    \cup {Response(200, TRUE, RecordsBody(l)) : l \in RecordLists}

\* The answers to the login of a helper call: drawn only when the client
\* holds no token, since otherwise no login request is made.
LoginAnswers(c) == IF c.AccessToken = "" THEN LoginResponses ELSE {NoResponse}

PlainResponses ==
  ErrorResponses \cup {Response(200, TRUE, EmptyObject), Response(200, FALSE, EmptyObject)}

\* ------------------------------------------------------------ encoding
\* strconv of the status codes the peer uses (the %d of fmt).
Itoa(n) ==
  CASE n = 200 -> "200" [] n = 401 -> "401" [] n = 403 -> "403" [] n = 404 -> "404"
    [] n = 500 -> "500" [] OTHER -> "0"

\* The bytes of a body as the peer wrote them.
Raw(body) ==
  CASE body.shape = "garbage" -> body.val
    [] body.shape = "error" -> <<"{code,message}">>
    [] OTHER -> <<"{}">>

\* What ioutil.ReadAll hands back: the whole body, or an error and nothing.
ReadAll(resp) ==
  IF resp.readOK THEN [content |-> Raw(resp.body), err |-> NoErr]
  ELSE [content |-> <<>>, err |-> ReadErr]

\* json.Marshal of a struct with omitempty members: empty members are left out.
OmitEmpty(members) == SelectSeq(members, LAMBDA m : m[2] # "")

\* json.Unmarshal into a map or struct: fails on what is no JSON document.
Unmarshal(body) == IF body.shape = "garbage" THEN JSONErr ELSE NoErr

\* fmt.Sprintf("%s/%s", apiBaseURL, endpoint); an endpoint is its path segments.
URLOf(endpoint) == <<apiBaseURL>> \o endpoint

\* ------------------------------------------------------------ requests
Request(method, url, bearer, body) ==
  [method |-> method, url |-> url, contentType |-> "application/json",
   bearer |-> bearer, body |-> body]

\* The %q of fmt on one piece: a double quote, a backslash and a newline
\* are written as escapes, plain characters as they are.
Escape(piece) ==
  CASE piece = "\"" -> "\\\""
    [] piece = "\\" -> "\\\\"
    [] piece = "\n" -> "\\n"
    [] OTHER -> piece

\* The %q of fmt: the bytes escaped, between double quotes.
Quote(bytes) ==
  <<"\"">> \o [i \in 1..Len(bytes) |-> Escape(bytes[i])] \o <<"\"">>

\* Faulty toUnreadableBodyMessage: names the method of the request, not its URL.
toUnreadableBodyMessageNoURL(req, rawBody) ==
  <<"the request ", req.method,
    " sent a response with a body which is an invalid format: ">>
    \o Quote(rawBody)

\* toUnreadableBodyMessage: the request URL and the body, quoted by %q.
toUnreadableBodyMessage(req, rawBody) ==
  <<"the request ">> \o req.url
    \o <<" sent a response with a body which is an invalid format: ">>
    \o Quote(rawBody)

\* Faulty readError: the status code is left out of the structured error.
readErrorNoStatus(req, resp) ==
  LET rd == ReadAll(resp) IN
  IF Failed(rd.err)
  THEN [kind |-> "unreadable", text |-> toUnreadableBodyMessage(req, rd.content)]
  ELSE IF Failed(Unmarshal(resp.body))
  THEN [kind |-> "unmarshal",
        text |-> <<"apiError unmarshaling error: ">> \o JSONErr.text \o <<": ">>
                   \o toUnreadableBodyMessage(req, rd.content)]
  ELSE LET code == IF resp.body.shape = "error" THEN resp.body.val[1] ELSE ""
           msg == IF resp.body.shape = "error" THEN resp.body.val[2] ELSE ""
       IN [kind |-> "api", text |-> <<"HTTP ", code, ": ", msg>>]

\* readError: the error made of a response of status >= 400.
readError(req, resp) ==
  LET rd == ReadAll(resp) IN
  IF Failed(rd.err)
  THEN [kind |-> "unreadable", text |-> toUnreadableBodyMessage(req, rd.content)]
  ELSE IF Failed(Unmarshal(resp.body))
  THEN [kind |-> "unmarshal",
        text |-> <<"apiError unmarshaling error: ">> \o JSONErr.text \o <<": ">>
                   \o toUnreadableBodyMessage(req, rd.content)]
  ELSE LET code == IF resp.body.shape = "error" THEN resp.body.val[1] ELSE ""
           msg == IF resp.body.shape = "error" THEN resp.body.val[2] ELSE ""
       IN [kind |-> "api",
           text |-> <<"HTTP ", Itoa(resp.status), ": ", code, ": ", msg>>]

\* doRequest: send req, get resp; the body read, or the error.
doRequest(req, resp) ==
  IF resp.kind = "transport" THEN [content |-> EmptyObject, err |-> TransportErr]
  ELSE IF resp.status >= 400 THEN [content |-> EmptyObject, err |-> readError(req, resp)]
  ELSE IF Failed(ReadAll(resp).err) THEN [content |-> EmptyObject, err |-> ReadErr]
  ELSE [content |-> resp.body, err |-> NoErr]

\* newRequest: the authenticated request, carrying the token held.
newRequest(c, method, reqURL, body) ==
  Request(method, reqURL, <<c.AccessToken>>, body)

\* What an observer of the wire learns from a response: the token of a login
\* response, the first identifier of a search response, the record list of a
\* domain detail; <<>> when the response carries none.
Observed(resp) ==
  IF resp.kind # "http" \/ resp.status >= 400 \/ ~resp.readOK THEN <<>>
  ELSE CASE resp.body.shape = "auth" -> resp.body.val
         [] resp.body.shape = "items" ->
              IF resp.body.val # <<>> /\ resp.body.val[1].isString
              THEN <<resp.body.val[1].id>> ELSE <<>>
         [] resp.body.shape = "records" -> <<resp.body.val>>
         [] OTHER -> <<>>

\* The answer as it was on the wire, less the values that Observed keeps.
Brief(resp) ==
  [resp EXCEPT !.body.val =
     IF resp.body.shape \in {"error", "garbage"} THEN @ ELSE <<>>]

\* One request on the wire with its answer: the request, the error doRequest
\* made of the answer, the answer, and what the answer carried.
Exchange(req, err, resp) ==
  [req |-> req, err |-> err, got |-> Observed(resp), resp |-> Brief(resp)]

\* ------------------------------------------------------------ the client
NewClient(clientID, email, password, ttl) ==
  [AccessToken |-> "", ClientID |-> clientID, Email |-> email,
   Password |-> password, TTL |-> ttl]

\* The request login builds: the credentials, no Authorization header.
loginRequest(c) ==
  Request("POST", <<loginURL>>, <<>>,
          OmitEmpty(<<<<"email", c.Email>>, <<"password", c.Password>>>>))

\* Faulty loginDecode: the token of the answer is not stored.
loginDecodeNoStore(impl, c, r, log) ==
  IF Failed(r.err) THEN [c |-> c, err |-> r.err, log |-> log]
  ELSE IF Failed(Unmarshal(r.content)) /\ impl = "Client"
  THEN [c |-> c, err |-> Unmarshal(r.content), log |-> log]
  ELSE IF r.content.shape # "auth"
  THEN [c |-> c, err |-> Panic("interface conversion"), log |-> log]
  ELSE [c |-> c, err |-> NoErr, log |-> log]

\* login, from the answer r of doRequest on: keep auth.accessToken.
\* Client returns the Unmarshal error; cloudDnsClient drops it and asserts on
\* the nil map.
loginDecode(impl, c, r, log) ==
  IF Failed(r.err) THEN [c |-> c, err |-> r.err, log |-> log]
  ELSE IF Failed(Unmarshal(r.content)) /\ impl = "Client"
  THEN [c |-> c, err |-> Unmarshal(r.content), log |-> log]
  ELSE IF r.content.shape # "auth"
  THEN [c |-> c, err |-> Panic("interface conversion"), log |-> log]
  ELSE [c |-> [c EXCEPT !.AccessToken = r.content.val[1]], err |-> NoErr, log |-> log]

\* login: post the credentials, keep auth.accessToken of the answer.
login(impl, c, resp) ==
  loginDecode(impl, c, doRequest(loginRequest(c), resp),
              <<Exchange(loginRequest(c), doRequest(loginRequest(c), resp).err, resp)>>)

\* Faulty lazyLogin: logs in whether or not a token is held.
lazyLoginAlways(impl, c, lresp) == login(impl, c, lresp)

\* The head of doAPIRequest: log in when no token is held.
lazyLogin(impl, c, lresp) ==
  IF c.AccessToken = "" THEN login(impl, c, lresp)
  ELSE [c |-> c, err |-> NoErr, log |-> <<>>]

\* Faulty sendRequest: the request is sent although the login failed.
sendRequestAnyway(l, method, endpoint, body, resp) ==
  LET req == newRequest(l.c, method, URLOf(endpoint), body)
  IN [c |-> l.c,
      content |-> doRequest(req, resp).content,
      err |-> doRequest(req, resp).err,
      log |-> l.log \o <<Exchange(req, doRequest(req, resp).err, resp)>>]

\* Faulty sendRequest: a request answered with an error drops the token, so
\* that the next call logs in afresh.
sendRequestDropToken(l, method, endpoint, body, resp) ==
  IF Failed(l.err)
  THEN [c |-> l.c, content |-> EmptyObject, err |-> l.err, log |-> l.log]
  ELSE LET req == newRequest(l.c, method, URLOf(endpoint), body)
       IN [c |-> IF Failed(doRequest(req, resp).err)
                 THEN [l.c EXCEPT !.AccessToken = ""] ELSE l.c,
           content |-> doRequest(req, resp).content,
           err |-> doRequest(req, resp).err,
           log |-> l.log \o <<Exchange(req, doRequest(req, resp).err, resp)>>]

\* Faulty sendRequest: a request answered 401 makes the client forget its
\* token.
sendRequestForget401(l, method, endpoint, body, resp) ==
  IF Failed(l.err)
  THEN [c |-> l.c, content |-> EmptyObject, err |-> l.err, log |-> l.log]
  ELSE LET req == newRequest(l.c, method, URLOf(endpoint), body)
       IN [c |-> IF resp.kind = "http" /\ resp.status = 401
                 THEN [l.c EXCEPT !.AccessToken = ""] ELSE l.c,
           content |-> doRequest(req, resp).content,
           err |-> doRequest(req, resp).err,
           log |-> l.log \o <<Exchange(req, doRequest(req, resp).err, resp)>>]

\* The rest of doAPIRequest, l being what the head left: give up on a login
\* error, else send the request with the token now held.
sendRequest(l, method, endpoint, body, resp) ==
  IF Failed(l.err)
  THEN [c |-> l.c, content |-> EmptyObject, err |-> l.err, log |-> l.log]
  ELSE LET req == newRequest(l.c, method, URLOf(endpoint), body)
       IN [c |-> l.c,
           content |-> doRequest(req, resp).content,
           err |-> doRequest(req, resp).err,
           log |-> l.log \o <<Exchange(req, doRequest(req, resp).err, resp)>>]

\* doAPIRequest: log in first when no token is held, then send the request.
doAPIRequest(impl, c, method, endpoint, body, lresp, resp) ==
  sendRequest(lazyLogin(impl, c, lresp), method, endpoint, body, resp)

\* What a helper hands back: the client as it leaves it, the value it
\* returns, its error, and the exchanges it had on the wire.
Result(r, val, err) == [c |-> r.c, val |-> val, err |-> err, log |-> r.log]

\* The body of the domain search: clientId and domainName, both by equality.
searchBody(c, zone) ==
  <<<<"search", <<[Name |-> "clientId", Operator |-> "eq", Value |-> c.ClientID],
                  [Name |-> "domainName", Operator |-> "eq", Value |-> zone]>>>>>>

\* Faulty domainIDOf: takes the last item instead of the first.
domainIDOfLast(impl, r) ==
  IF Failed(r.err) THEN Result(r, "", r.err)
  ELSE IF Failed(Unmarshal(r.content)) /\ impl = "Client"
  THEN Result(r, "", Unmarshal(r.content))
  ELSE IF r.content.shape # "items"
  THEN Result(r, "", Panic("interface conversion"))
  ELSE IF r.content.val = <<>>
  THEN Result(r, "", Panic("index out of range"))
  ELSE IF ~r.content.val[Len(r.content.val)].isString
  THEN Result(r, "", Panic("interface conversion"))
  ELSE Result(r, r.content.val[Len(r.content.val)].id, NoErr)

\* getDomainID, from the answer r of doAPIRequest on: take items[0].id.
\* Client returns the Unmarshal error; cloudDnsClient drops it and asserts on
\* the nil map.
domainIDOf(impl, r) ==
  IF Failed(r.err) THEN Result(r, "", r.err)
  ELSE IF Failed(Unmarshal(r.content)) /\ impl = "Client"
  THEN Result(r, "", Unmarshal(r.content))
  ELSE IF r.content.shape # "items"
  THEN Result(r, "", Panic("interface conversion"))
  ELSE IF r.content.val = <<>>
  THEN Result(r, "", Panic("index out of range"))
  ELSE IF ~r.content.val[1].isString
  THEN Result(r, "", Panic("interface conversion"))
  ELSE Result(r, r.content.val[1].id, NoErr)

\* getDomainID: search the domain by account and zone.
getDomainID(impl, c, zone, lresp, resp) ==
  domainIDOf(impl, doAPIRequest(impl, c, "POST", <<"domain", "search">>,
                                searchBody(c, zone), lresp, resp))

\* Faulty ScanEntries: stops at the first entry that matches.
RECURSIVE ScanEntriesFirst(_, _, _)
ScanEntriesFirst(entries, recordName, recordID) ==
  IF entries = <<>> THEN [val |-> recordID, err |-> NoErr]
  ELSE IF Head(entries).name = recordName /\ Head(entries).type = "TXT"
  THEN IF Head(entries).idIsString
       THEN [val |-> Head(entries).id, err |-> NoErr]
       ELSE [val |-> "", err |-> Panic("interface conversion")]
  ELSE ScanEntriesFirst(Tail(entries), recordName, recordID)

\* The loop of getRecordID over the entries, recordID being its value so far.
RECURSIVE ScanEntries(_, _, _)
ScanEntries(entries, recordName, recordID) ==
  IF entries = <<>> THEN [val |-> recordID, err |-> NoErr]
  ELSE IF Head(entries).name = recordName /\ Head(entries).type = "TXT"
  THEN IF Head(entries).idIsString
       THEN ScanEntries(Tail(entries), recordName, Head(entries).id)
       ELSE [val |-> "", err |-> Panic("interface conversion")]
  ELSE ScanEntries(Tail(entries), recordName, recordID)

\* Faulty recordIDOf: a list without a matching entry is an error.
recordIDOfNotFound(impl, recordName, r) ==
  IF Failed(r.err) THEN Result(r, "", r.err)
  ELSE IF Failed(Unmarshal(r.content)) /\ impl = "Client"
  THEN Result(r, "", Unmarshal(r.content))
  ELSE IF r.content.shape # "records"
  THEN Result(r, "", Panic("interface conversion"))
  ELSE IF ScanEntries(r.content.val, recordName, "").val = ""
          /\ ~Failed(ScanEntries(r.content.val, recordName, "").err)
  THEN Result(r, "", [kind |-> "notfound", text |-> <<"record not found">>])
  ELSE Result(r, ScanEntries(r.content.val, recordName, "").val,
              ScanEntries(r.content.val, recordName, "").err)

\* getRecordID, from the answer r of doAPIRequest on.
recordIDOf(impl, recordName, r) ==
  IF Failed(r.err) THEN Result(r, "", r.err)
  ELSE IF Failed(Unmarshal(r.content)) /\ impl = "Client"
  THEN Result(r, "", Unmarshal(r.content))
  ELSE IF r.content.shape # "records"
  THEN Result(r, "", Panic("interface conversion"))
  ELSE Result(r, ScanEntries(r.content.val, recordName, "").val,
              ScanEntries(r.content.val, recordName, "").err)

\* getRecordID: fetch the domain, scan its lastDomainRecordList.
getRecordID(impl, c, domainID, recordName, lresp, resp) ==
  recordIDOf(impl, recordName,
             doAPIRequest(impl, c, "GET", <<"domain", domainID>>, <<>>, lresp, resp))

\* A helper that returns the error of its request and nothing else.
errorOnly(r) == Result(r, "", r.err)

\* The body addTxtRecord marshals.
txtRecord(domainID, recordName, recordValue) ==
  OmitEmpty(<<<<"domainId", domainID>>, <<"name", recordName>>,
              <<"value", recordValue>>, <<"type", "TXT">>>>)

\* addTxtRecord: post the TXT record.
addTxtRecord(impl, c, domainID, recordName, recordValue, lresp, resp) ==
  errorOnly(doAPIRequest(impl, c, "POST", <<"record-txt">>,
                         txtRecord(domainID, recordName, recordValue), lresp, resp))

\* deleteRecordByID: delete record/<recordID>.
deleteRecordByID(impl, c, recordID, lresp, resp) ==
  errorOnly(doAPIRequest(impl, c, "DELETE", <<"record", recordID>>, <<>>, lresp, resp))

\* Faulty publishRecords: puts the default TTL, whatever the client's is.
publishRecordsDefaultTTL(impl, c, domainID, lresp, resp) ==
  errorOnly(doAPIRequest(impl, c, "PUT", <<"domain", domainID, "publish">>,
                         <<<<"soaTtl", 300>>>>, lresp, resp))

\* publishRecords: put the configured TTL to domain/<domainID>/publish.
publishRecords(impl, c, domainID, lresp, resp) ==
  errorOnly(doAPIRequest(impl, c, "PUT", <<"domain", domainID, "publish">>,
                         <<<<"soaTtl", c.TTL>>>>, lresp, resp))

\* Faulty AddRecord: takes the record back when the publish failed.
AddRecordRollback(impl, step, err) ==
  IF err.kind = "panic" THEN "idle"
  ELSE CASE step = "getDomainID" ->
              IF impl = "Client" /\ Failed(err) THEN "idle" ELSE "addTxtRecord"
         [] step = "addTxtRecord" -> IF Failed(err) THEN "idle" ELSE "publishRecords"
         [] step = "publishRecords" -> IF Failed(err) THEN "deleteRecordByID" ELSE "idle"
         [] OTHER -> "idle"

\* AddRecord: the helper it calls after the helper `step` returned err, or
\* "idle" when it returns (err, then) to its caller. cloudDnsClient does not
\* look at the error of getDomainId. A panic unwinds it wherever it is.
AddRecord(impl, step, err) ==
  IF err.kind = "panic" THEN "idle"
  ELSE CASE step = "getDomainID" ->
              IF impl = "Client" /\ Failed(err) THEN "idle" ELSE "addTxtRecord"
         [] step = "addTxtRecord" -> IF Failed(err) THEN "idle" ELSE "publishRecords"
         [] OTHER -> "idle"

\* Faulty DeleteRecord: publishes whether or not the delete succeeded.
DeleteRecordPublishAlways(impl, step, err) ==
  IF err.kind = "panic" THEN "idle"
  ELSE CASE step = "getDomainID" -> IF Failed(err) THEN "idle" ELSE "getRecordID"
         [] step = "getRecordID" -> IF Failed(err) THEN "idle" ELSE "deleteRecordByID"
         [] step = "deleteRecordByID" -> "publishRecords"
         [] OTHER -> "idle"

\* DeleteRecord: likewise; the same in both versions.
DeleteRecord(impl, step, err) ==
  IF err.kind = "panic" THEN "idle"
  ELSE CASE step = "getDomainID" -> IF Failed(err) THEN "idle" ELSE "getRecordID"
         [] step = "getRecordID" -> IF Failed(err) THEN "idle" ELSE "deleteRecordByID"
         [] step = "deleteRecordByID" -> IF Failed(err) THEN "idle" ELSE "publishRecords"
         [] OTHER -> "idle"

\* ------------------------------------------------------------ state
\* ------------------------------------------------------------ the adapter
\* fmt.Errorf("clouddns: %v", err).
Wrap(err) == [kind |-> "clouddns", text |-> <<"clouddns: ">> \o err.text]

\* Present, from the return of AddRecord on: wrap its error. A panic of the
\* client unwinds Present as well.
Present(err) ==
  IF err.kind = "panic" THEN err
  ELSE IF Failed(err) THEN Wrap(err) ELSE NoErr

\* CleanUp, from the return of DeleteRecord on.
CleanUp(err) ==
  IF err.kind = "panic" THEN err
  ELSE IF Failed(err) THEN Wrap(err) ELSE NoErr

\* dns01.FindZoneByFqdn: the zone of the name, or an error.
ZoneErr == [kind |-> "zone", text |-> <<"could not find the start of authority">>]

FindZoneByFqdn == {[zone |-> z, err |-> NoErr] : z \in Zones} \cup {[zone |-> "", err |-> ZoneErr]}

VARIABLES
  impl,      \* which version of the client this is
  client,    \* the client struct
  pc,        \* "idle", or the helper the running operation calls next
  call,      \* the running (or last) operation and its arguments
  domainID,  \* local of AddRecord / DeleteRecord
  recordID,  \* local of DeleteRecord
  sent,      \* the exchanges of the running (or last) operation, in order
  errs,      \* the helpers it called, with the error each returned
  ret,       \* what the last operation returned
  out,       \* what Present / CleanUp returned
  granted,   \* history: "none", or the best a login answer granted so far
  records,   \* the record list of the domain, at the provider
  trail      \* history: the list when the operation began, and the operation before

vars == <<impl, client, pc, call, domainID, recordID, sent, errs, ret,
          out, granted, records, trail>>

NoCall == [op |-> "none", via |-> "direct", zone |-> "", name |-> "", value |-> "",
           zerr |-> NoErr]

NoTrail == [start |-> <<>>, prev |-> [call |-> NoCall, ret |-> NoErr, start |-> <<>>]]

Init ==
  /\ impl \in Variants
  /\ \E id \in ClientIDs, e \in Emails, p \in Passwords, ttl \in TTLs :
       client = NewClient(id, e, p, ttl)
  /\ pc = "idle"
  /\ call = NoCall
  /\ domainID = ""
  /\ recordID = ""
  /\ sent = <<>>
  /\ errs = <<>>
  /\ ret = NoErr
  /\ out = NoErr
  /\ granted = "none"
  /\ records = <<>>
  /\ trail = NoTrail

\* An operation is entered with the arguments of c; next is its first helper.
Invoke(c, next) ==
  /\ call' = c
  /\ pc' = next
  /\ domainID' = ""
  /\ recordID' = ""
  /\ sent' = <<>>
  /\ errs' = <<>>
  /\ ret' = NoErr
  /\ UNCHANGED <<impl, client, granted>>

\* The caller invokes AddRecord(zone, name, value).
CallAddRecord ==
  /\ pc = "idle"
  /\ \E z \in Zones, n \in Names, v \in Values :
       Invoke([op |-> "add", via |-> "direct", zone |-> z, name |-> n, value |-> v,
               zerr |-> NoErr], "getDomainID")
  /\ UNCHANGED <<out, records, trail>>

\* The caller invokes DeleteRecord(zone, name).
CallDeleteRecord ==
  /\ pc = "idle"
  /\ \E z \in Zones, n \in Names :
       Invoke([op |-> "delete", via |-> "direct", zone |-> z, name |-> n, value |-> "",
               zerr |-> NoErr], "getDomainID")
  /\ UNCHANGED <<out, records, trail>>

\* The tokens that the login answers of a helper call carried.
Granted(log) ==
  {log[i].got[1] : i \in {j \in DOMAIN log : log[j].req.url = <<loginURL>> /\ log[j].got # <<>>}}

\* The running operation takes the result r of the helper it called; when it
\* returns to Present / CleanUp, that one returns in its turn.
Advance(step, r) ==
  /\ client' = r.c
  /\ sent' = sent \o r.log
  /\ errs' = Append(errs, [step |-> step, err |-> r.err])
  /\ domainID' = IF step = "getDomainID" THEN r.val ELSE domainID
  /\ recordID' = IF step = "getRecordID" THEN r.val ELSE recordID
  /\ IF call.op = "add"
     THEN /\ pc' = AddRecord(impl, step, r.err)
          /\ ret' = IF AddRecord(impl, step, r.err) = "idle" THEN r.err ELSE ret
     ELSE /\ pc' = DeleteRecord(impl, step, r.err)
          /\ ret' = IF DeleteRecord(impl, step, r.err) = "idle" THEN r.err ELSE ret
  /\ out' = IF pc' # "idle" \/ call.via = "direct" THEN out
            ELSE IF call.via = "Present" THEN Present(r.err) ELSE CleanUp(r.err)
  /\ granted' = IF Granted(r.log) \ {""} # {} THEN "token"
                ELSE IF Granted(r.log) # {} /\ granted = "none" THEN "empty"
                ELSE granted
  /\ UNCHANGED <<impl, call>>

DoGetDomainID ==
  /\ pc = "getDomainID"
  /\ \E lresp \in LoginAnswers(client), resp \in SearchResponses :
       Advance("getDomainID", getDomainID(impl, client, call.zone, lresp, resp))
  /\ UNCHANGED <<records, trail>>

DoAddTxtRecord ==
  /\ pc = "addTxtRecord"
  /\ \E lresp \in LoginAnswers(client), resp \in PlainResponses :
       Advance("addTxtRecord",
               addTxtRecord(impl, client, domainID, call.name, call.value, lresp, resp))
  /\ UNCHANGED <<records, trail>>

DoGetRecordID ==
  /\ pc = "getRecordID"
  /\ \E lresp \in LoginAnswers(client), resp \in DetailResponses :
       Advance("getRecordID",
               getRecordID(impl, client, domainID, call.name, lresp, resp))
  /\ UNCHANGED <<records, trail>>

DoDeleteRecordByID ==
  /\ pc = "deleteRecordByID"
  /\ \E lresp \in LoginAnswers(client), resp \in PlainResponses :
       Advance("deleteRecordByID",
               deleteRecordByID(impl, client, recordID, lresp, resp))
  /\ UNCHANGED <<records, trail>>

DoPublishRecords ==
  /\ pc = "publishRecords"
  /\ \E lresp \in LoginAnswers(client), resp \in PlainResponses :
       Advance("publishRecords",
               publishRecords(impl, client, domainID, lresp, resp))
  /\ UNCHANGED <<records, trail>>

Next ==
  \/ CallAddRecord
  \/ CallDeleteRecord
  \/ DoGetDomainID
  \/ DoAddTxtRecord
  \/ DoGetRecordID
  \/ DoDeleteRecordByID
  \/ DoPublishRecords

Spec == Init /\ [][Next]_vars

\* ------------------------------------------------------------ a provider
\* A provider that keeps the record list of the one domain it has, appends
\* each record it creates to the end of the list, and answers every request
\* it understands.
ProviderDomain == "dom-1"

ProviderToken == "tok-A"

\* The lists the provider may hold to begin with.
ProviderLists == {WithIDs(l, TRUE) : l \in SeqsUpTo(EntryShapes, MaxList)}

IDsOf(recs) == {recs[i].id : i \in DOMAIN recs}

\* The id the provider gives the next record: the first one not in use.
FreshID(recs) ==
  RecordIDAt(CHOOSE i \in 1..(Len(recs) + 1) :
               /\ RecordIDAt(i) \notin IDsOf(recs)
               /\ \A j \in 1..(i - 1) : RecordIDAt(j) \in IDsOf(recs))

\* The member `key` of a marshalled object, "" when it was omitted.
Member(body, key) ==
  IF \E i \in DOMAIN body : body[i][1] = key
  THEN body[CHOOSE i \in DOMAIN body : body[i][1] = key][2]
  ELSE ""

ProviderLogin == Response(200, TRUE, AuthBody(ProviderToken))

ProviderSearch == Response(200, TRUE, ItemsBody(<<[id |-> ProviderDomain, isString |-> TRUE]>>))

ProviderDetail(recs) == Response(200, TRUE, RecordsBody(recs))

ProviderOK == Response(200, TRUE, EmptyObject)

\* The answer to DELETE record/<id>.
ProviderDelete(recs, id) ==
  IF id \in IDsOf(recs) THEN ProviderOK
  ELSE Response(404, TRUE, ErrorBody("NOT_FOUND", "no such record"))

\* What one exchange does to the list: a record created is appended, a
\* record deleted is taken out, anything else and any request refused
\* leaves the list as it is.
Applied(recs, e) ==
  IF Failed(e.err) THEN recs
  ELSE IF e.req.method = "POST" /\ e.req.url = <<apiBaseURL, "record-txt">>
  THEN Append(recs, [id |-> FreshID(recs), name |-> Member(e.req.body, "name"),
                     type |-> Member(e.req.body, "type"), idIsString |-> TRUE])
  ELSE IF e.req.method = "DELETE" /\ Len(e.req.url) = 3
  THEN SelectSeq(recs, LAMBDA rec : rec.id # e.req.url[3])
  ELSE recs

\* The list after the exchanges of one helper call: a login, if any, and
\* the request.
Effect(recs, log) ==
  IF log = <<>> THEN recs ELSE Applied(recs, log[Len(log)])

\* A helper call answered by the provider.
ProviderAdvance(step, r) ==
  /\ Advance(step, r)
  /\ records' = Effect(records, r.log)
  /\ UNCHANGED trail

\* A call against the provider: remember the list and the operation before.
ProviderInvoke(c) ==
  /\ Invoke(c, "getDomainID")
  /\ trail' = [start |-> records,
               prev |-> [call |-> call, ret |-> ret, start |-> trail.start]]
  /\ UNCHANGED <<out, records>>

ProviderAddRecord ==
  /\ pc = "idle"
  /\ Len(records) < MaxRecords
  /\ \E z \in Zones, n \in Names, v \in Values :
       ProviderInvoke([op |-> "add", via |-> "direct", zone |-> z, name |-> n,
                       value |-> v, zerr |-> NoErr])

ProviderDeleteRecord ==
  /\ pc = "idle"
  /\ \E z \in Zones, n \in Names :
       ProviderInvoke([op |-> "delete", via |-> "direct", zone |-> z, name |-> n,
                       value |-> "", zerr |-> NoErr])

ProviderGetDomainID ==
  /\ pc = "getDomainID"
  /\ ProviderAdvance("getDomainID",
       getDomainID(impl, client, call.zone, ProviderLogin, ProviderSearch))

ProviderAddTxtRecord ==
  /\ pc = "addTxtRecord"
  /\ ProviderAdvance("addTxtRecord",
       addTxtRecord(impl, client, domainID, call.name, call.value, ProviderLogin, ProviderOK))

ProviderGetRecordID ==
  /\ pc = "getRecordID"
  /\ ProviderAdvance("getRecordID",
       getRecordID(impl, client, domainID, call.name, ProviderLogin, ProviderDetail(records)))

ProviderDeleteRecordByID ==
  /\ pc = "deleteRecordByID"
  /\ ProviderAdvance("deleteRecordByID",
       deleteRecordByID(impl, client, recordID, ProviderLogin,
                        ProviderDelete(records, recordID)))

ProviderPublishRecords ==
  /\ pc = "publishRecords"
  /\ ProviderAdvance("publishRecords",
       publishRecords(impl, client, domainID, ProviderLogin, ProviderOK))

InitProvider ==
  /\ impl \in Variants
  /\ \E id \in ClientIDs, e \in Emails, p \in Passwords, ttl \in TTLs :
       client = NewClient(id, e, p, ttl)
  /\ pc = "idle"
  /\ call = NoCall
  /\ domainID = ""
  /\ recordID = ""
  /\ sent = <<>>
  /\ errs = <<>>
  /\ ret = NoErr
  /\ out = NoErr
  /\ granted = "none"
  /\ records \in ProviderLists
  /\ trail = [NoTrail EXCEPT !.start = records]

NextProvider ==
  \/ ProviderAddRecord
  \/ ProviderDeleteRecord
  \/ ProviderGetDomainID
  \/ ProviderAddTxtRecord
  \/ ProviderGetRecordID
  \/ ProviderDeleteRecordByID
  \/ ProviderPublishRecords

SpecProvider == InitProvider /\ [][NextProvider]_vars

\* ------------------------------------------------------------ the adapter at work
\* Present(domain, token, keyAuth): n and v are what dns01.GetRecord makes of
\* the domain and the key authorization, za what FindZoneByFqdn answers.
CallPresent ==
  /\ pc = "idle"
  /\ \E n \in Names, v \in Values, za \in FindZoneByFqdn :
       /\ Invoke([op |-> "add", via |-> "Present", zone |-> za.zone, name |-> n,
                  value |-> v, zerr |-> za.err],
                 IF Failed(za.err) THEN "idle" ELSE "getDomainID")
       /\ out' = IF Failed(za.err) THEN Wrap(za.err) ELSE NoErr
  /\ UNCHANGED <<records, trail>>

\* CleanUp(domain, token, keyAuth).
CallCleanUp ==
  /\ pc = "idle"
  /\ \E n \in Names, za \in FindZoneByFqdn :
       /\ Invoke([op |-> "delete", via |-> "CleanUp", zone |-> za.zone, name |-> n,
                  value |-> "", zerr |-> za.err],
                 IF Failed(za.err) THEN "idle" ELSE "getDomainID")
       /\ out' = IF Failed(za.err) THEN Wrap(za.err) ELSE NoErr
  /\ UNCHANGED <<records, trail>>

\* NewDNSProvider builds the adapter on NewCloudDnsClient.
InitAdapter == Init /\ impl = "cloudDnsClient"

NextAdapter ==
  \/ CallPresent
  \/ CallCleanUp
  \/ DoGetDomainID
  \/ DoAddTxtRecord
  \/ DoGetRecordID
  \/ DoDeleteRecordByID
  \/ DoPublishRecords

SpecAdapter == InitAdapter /\ [][NextAdapter]_vars

\* ------------------------------------------------------------ properties
IsLogin(e) == e.req.url = <<loginURL>>

\* The authenticated requests of the running (or last) operation, in order.
AuthSent == SelectSeq(sent, LAMBDA e : ~IsLogin(e))

\* The exchanges a step adds to the wire.
NewSent == SubSeq(sent', Len(sent) + 1, Len(sent'))

\* A step that is a helper call of the running operation.
HelperStep == pc # "idle" /\ Len(errs') = Len(errs) + 1

SameRequest(req, method, endpoint, body) ==
  /\ req.method = method
  /\ req.url = <<apiBaseURL>> \o endpoint
  /\ req.body = body
  /\ req.contentType = "application/json"

IsSearch(req) ==
  SameRequest(req, "POST", <<"domain", "search">>,
    <<<<"search", <<[Name |-> "clientId", Operator |-> "eq", Value |-> client.ClientID],
                    [Name |-> "domainName", Operator |-> "eq", Value |-> call.zone]>>>>>>)

IsPublish(req, d) ==
  SameRequest(req, "PUT", <<"domain", d, "publish">>, <<<<"soaTtl", client.TTL>>>>)

\* C1: within one operation a request answered with an error is the last
\* request of the operation, and the operation has returned that failure.
C1_AbortOnFirstError ==
  \A i \in DOMAIN sent :
    Failed(sent[i].err) => i = Len(sent) /\ pc = "idle" /\ Failed(ret)

\* C2: a helper call made while no token is held sends one login request
\* first and at most one more request, and that request carries as bearer
\* token the accessToken of the login response.
C2_LoginThenAuthenticate ==
  [][(HelperStep /\ client.AccessToken = "") =>
        /\ Len(NewSent) \in {1, 2}
        /\ IsLogin(NewSent[1])
        /\ NewSent[1].req.bearer = <<>>
        /\ Len(NewSent) = 2 =>
             /\ ~IsLogin(NewSent[2])
             /\ NewSent[1].got # <<>>
             /\ NewSent[2].req.bearer = NewSent[1].got]_vars

C2_Witness ==
  /\ Len(sent) >= 2
  /\ IsLogin(sent[1])
  /\ sent[1].got = <<"tok-A">>
  /\ ~IsLogin(sent[2])
  /\ sent[2].req.bearer = <<"tok-A">>

\* C3: a helper call made while a non-empty token is held sends exactly one
\* request, which is no login and carries the token held.
C3_TokenReuse ==
  [][(HelperStep /\ client.AccessToken # "") =>
        /\ Len(NewSent) = 1
        /\ ~IsLogin(NewSent[1])
        /\ NewSent[1].req.bearer = <<client.AccessToken>>]_vars

C3_Witness ==
  /\ client.AccessToken # ""
  /\ Len(sent) >= 2
  /\ \A i \in DOMAIN sent :
       ~IsLogin(sent[i]) /\ sent[i].req.bearer = <<client.AccessToken>>

C5_DeleteRecordOrder ==
  call.op = "delete" =>
    LET a == AuthSent IN
    /\ Len(a) <= 4
    /\ Len(a) >= 1 => IsSearch(a[1].req)
    /\ Len(a) >= 2 =>
         /\ ~Failed(a[1].err) /\ a[1].got # <<>>
         /\ SameRequest(a[2].req, "GET", <<"domain", a[1].got[1]>>, <<>>)
    /\ Len(a) >= 3 =>
         /\ ~Failed(a[2].err)
         /\ SameRequest(a[3].req, "DELETE", <<"record", recordID>>, <<>>)
    /\ Len(a) >= 4 =>
         /\ ~Failed(a[3].err)
         /\ IsPublish(a[4].req, a[1].got[1])

C5_Witness ==
  /\ call.op = "delete"
  /\ pc = "idle"
  /\ ret = NoErr
  /\ Len(AuthSent) = 4
  /\ AuthSent[1].got = <<"dom-2">>
  /\ AuthSent[3].req.url = <<apiBaseURL, "record", "rec-1">>

\* The positions of the record list whose entry has the requested name and
\* type TXT.
Matches(list) ==
  {i \in DOMAIN list : list[i].name = call.name /\ list[i].type = "TXT"}

Last(S) == CHOOSE i \in S : \A j \in S : j <= i

\* C6: the record DeleteRecord deletes is the last entry of the returned
\* list that has the requested name and type TXT; it is never an entry of
\* another name or type.
C6_LastMatchDeleted ==
  (call.op = "delete" /\ Len(AuthSent) >= 3) =>
    LET list == AuthSent[2].got[1]
        url == AuthSent[3].req.url
    IN /\ Matches(list) # {} =>
            url = <<apiBaseURL, "record", list[Last(Matches(list))].id>>
       /\ \A i \in DOMAIN list :
            i \notin Matches(list) => url # <<apiBaseURL, "record", list[i].id>>

C6_Witness ==
  /\ call.op = "delete"
  /\ Len(AuthSent) >= 3
  /\ Len(AuthSent[2].got[1]) = 2
  /\ Matches(AuthSent[2].got[1]) = {1, 2}
  /\ AuthSent[3].req.url = <<apiBaseURL, "record", "rec-2">>

\* C7: when no entry of the returned list has the requested name and type
\* TXT, getRecordID returns no error and the empty identifier, DeleteRecord
\* goes on to deleteRecordByID, the DELETE request goes to record/ and,
\* once it succeeded, DeleteRecord goes on to publishRecords.
C7_NoMatchDeletesEmptyID ==
  (/\ call.op = "delete"
   /\ Len(errs) >= 2
   /\ Len(AuthSent) >= 2
   /\ AuthSent[2].got # <<>>
   /\ Matches(AuthSent[2].got[1]) = {}) =>
     /\ errs[2] = [step |-> "getRecordID", err |-> NoErr]
     /\ recordID = ""
     /\ Len(errs) = 2 => pc = "deleteRecordByID"
     /\ Len(AuthSent) >= 3 =>
          SameRequest(AuthSent[3].req, "DELETE", <<"record", "">>, <<>>)
     /\ (Len(errs) = 3 /\ ~Failed(errs[3].err)) => pc = "publishRecords"
     /\ Len(errs) = 4 => errs[4].step = "publishRecords"

C7_Witness ==
  /\ call.op = "delete"
  /\ pc = "idle"
  /\ ret = NoErr
  /\ Len(AuthSent) = 4
  /\ Len(AuthSent[2].got[1]) = 2
  /\ Matches(AuthSent[2].got[1]) = {}
  /\ AuthSent[3].req.url = <<apiBaseURL, "record", "">>

\* A login exchange that did not yield a token: a transport failure, a
\* status >= 400, or a body that is no {auth: {accessToken: string}}.
LoginFailed(e) == IsLogin(e) /\ (Failed(e.err) \/ e.got = <<>>)

\* C8: when the login of a helper call fails, the client still holds no
\* token, no request follows the login in that call, and the call returns
\* an error (or panics).
C8_LoginFailure ==
  [][(HelperStep /\ NewSent # <<>> /\ LoginFailed(NewSent[1])) =>
        /\ client'.AccessToken = ""
        /\ Len(NewSent) = 1
        /\ Failed(errs'[Len(errs')].err)]_vars

C8_Witness ==
  /\ pc = "idle"
  /\ Len(sent) = 1
  /\ LoginFailed(sent[1])
  /\ ~Failed(sent[1].err)
  /\ client.AccessToken = ""
  /\ ret.kind = "json"

\* C9: a non-empty token never changes; a helper call made while it is
\* held sends one request with it, no login, and never a request the
\* operation has sent before.
C9_TokenNeverChanges ==
  [][client.AccessToken # "" =>
        /\ client'.AccessToken = client.AccessToken
        /\ HelperStep =>
             /\ Len(NewSent) = 1
             /\ ~IsLogin(NewSent[1])
             /\ NewSent[1].req.bearer = <<client.AccessToken>>
             /\ \A i \in DOMAIN sent : sent[i].req # NewSent[1].req]_vars

C9_Witness ==
  /\ pc = "idle"
  /\ client.AccessToken = "tok-B"
  /\ Len(sent) = 2
  /\ ~IsLogin(sent[1]) /\ ~IsLogin(sent[2])
  /\ sent[2].err.kind = "api"
  /\ sent[2].req.bearer = <<"tok-B">>

\* The error of the first helper that failed, nil when none did.
RECURSIVE FirstError(_)
FirstError(es) ==
  IF es = <<>> THEN NoErr
  ELSE IF Failed(Head(es).err) THEN Head(es).err
  ELSE FirstError(Tail(es))

\* C10: what AddRecord returns is the error of its first failing step, and
\* nil only when no step failed.
C10_AddRecordFirstError ==
  (call.op = "add" /\ pc = "idle") => ret = FirstError(errs)

\* An answer of status < 400 that was read to its end.
Answered(e) == e.resp.kind = "http" /\ e.resp.status < 400 /\ e.resp.readOK

\* A search answer that is JSON without the expected shape: no items, an
\* empty items array, or a first item whose id is no string.
ShapeMismatch(e) ==
  /\ Answered(e)
  /\ \/ e.resp.body.shape = "object"
     \/ e.resp.body.shape = "items" /\ e.got = <<>>

\* C11: when the search answer has not the expected shape, getDomainID
\* returns an error value, the operation returns that error, and no further
\* request is sent.
C11_DecodeErrorReturned ==
  (AuthSent # <<>> /\ IsSearch(AuthSent[1].req) /\ ShapeMismatch(AuthSent[1])) =>
    /\ errs[1].step = "getDomainID"
    /\ errs[1].err.kind \notin {"nil", "panic"}
    /\ pc = "idle"
    /\ ret = errs[1].err
    /\ Len(AuthSent) = 1

\* s is a run of consecutive elements of t.
Contains(t, s) ==
  \E i \in 0..(Len(t) - Len(s)) : SubSeq(t, i + 1, i + Len(s)) = s

\* An answer of status >= 400 whose body was read to its end.
ErrorAnswered(e) == e.resp.kind = "http" /\ e.resp.status >= 400 /\ e.resp.readOK

\* C14: a request answered with a status >= 400 and a JSON body
\* {code, message} gives an error whose text holds the status code, the code
\* and the message, and a helper of the operation has returned that error.
C14_StructuredError ==
  \A i \in DOMAIN sent :
    (ErrorAnswered(sent[i]) /\ sent[i].resp.body.shape = "error") =>
       /\ Failed(sent[i].err)
       /\ Contains(sent[i].err.text, <<Itoa(sent[i].resp.status)>>)
       /\ Contains(sent[i].err.text, <<sent[i].resp.body.val[1]>>)
       /\ Contains(sent[i].err.text, <<sent[i].resp.body.val[2]>>)
       /\ \E k \in DOMAIN errs : errs[k].err = sent[i].err

C14_Witness ==
  /\ sent # <<>>
  /\ sent[Len(sent)].resp.status = 403
  /\ sent[Len(sent)].resp.body = ErrorBody("FORBIDDEN", "no access")
  /\ sent[Len(sent)].err.text = <<"HTTP ", "403", ": ", "FORBIDDEN", ": ", "no access">>
  /\ ret = sent[Len(sent)].err

\* What a piece written by %q stands for.
Unescape(piece) ==
  CASE piece = "\\\"" -> "\""
    [] piece = "\\\\" -> "\\"
    [] piece = "\\n" -> "\n"
    [] OTHER -> piece

\* q is the bytes in the form %q writes them.
QuotedAs(q, bytes) ==
  /\ Len(q) = Len(bytes) + 2
  /\ q[1] = "\"" /\ q[Len(q)] = "\""
  /\ \A k \in 1..Len(bytes) : q[k + 1] \notin {"\"", "\\", "\n"} /\ Unescape(q[k + 1]) = bytes[k]

\* C15: a request answered with a status >= 400 and a body that is no JSON
\* gives an error that is no structured error and whose text holds the URL
\* of the request and, as the quoted string that stands for them, the bytes
\* of the body; a helper of the operation has returned that error.
C15_UnreadableBody ==
  \A i \in DOMAIN sent :
    (ErrorAnswered(sent[i]) /\ sent[i].resp.body.shape = "garbage") =>
       /\ Failed(sent[i].err)
       /\ sent[i].err.kind # "api"
       /\ Contains(sent[i].err.text, sent[i].req.url)
       /\ \E k \in 1..Len(sent[i].err.text) :
            QuotedAs(SubSeq(sent[i].err.text, k, Len(sent[i].err.text)),
                     sent[i].resp.body.val)
       /\ \E k \in DOMAIN errs : errs[k].err = sent[i].err

C15_Witness ==
  /\ Len(AuthSent) = 2
  /\ AuthSent[2].resp.status = 500
  /\ AuthSent[2].resp.body = Garbage
  /\ AuthSent[2].err.kind = "unmarshal"
  /\ Contains(AuthSent[2].err.text, <<apiBaseURL, "record-txt">>)
  /\ ret = AuthSent[2].err

\* C16: every publish request carries as soaTtl the TTL of the client, and
\* no step changes the TTL of the client.
C16_PublishTTL ==
  /\ [](\A i \in DOMAIN sent :
          sent[i].req.method = "PUT" => sent[i].req.body = <<<<"soaTtl", client.TTL>>>>)
  /\ [][client'.TTL = client.TTL]_vars

C16_Witness ==
  /\ client.TTL = 60
  /\ call.op = "delete"
  /\ Len(AuthSent) = 4
  /\ AuthSent[4].req.method = "PUT"
  /\ AuthSent[4].req.body = <<<<"soaTtl", 60>>>>

\* The request that creates a TXT record, and the one that deletes a record.
IsCreate(req) == req.method = "POST" /\ req.url = <<apiBaseURL, "record-txt">>

IsDelete(req) == req.method = "DELETE"

\* C12: a publish request that fails is the last request of its operation,
\* which returns that failure: AddRecord has sent no DELETE and DeleteRecord
\* no request that creates a record, so what the earlier step did stays.
C12_NoCompensation ==
  \A i \in DOMAIN sent :
    (sent[i].req.method = "PUT" /\ Failed(sent[i].err)) =>
       /\ i = Len(sent)
       /\ pc = "idle"
       /\ ret = sent[i].err
       /\ \A j \in DOMAIN sent :
            /\ call.op = "add" => ~IsDelete(sent[j].req)
            /\ call.op = "delete" => ~IsCreate(sent[j].req)

\* The record was created, the publish then failed.
C12_Witness ==
  /\ call.op = "add"
  /\ Len(AuthSent) = 3
  /\ IsCreate(AuthSent[2].req) /\ ~Failed(AuthSent[2].err)
  /\ AuthSent[3].req.method = "PUT" /\ Failed(AuthSent[3].err)
  /\ pc = "idle"
  /\ ret = AuthSent[3].err

\* No login request among the exchanges of the step.
NoLoginSent == \A i \in DOMAIN NewSent : ~IsLogin(NewSent[i])

\* C17: once a login request was answered with a well-formed token, whatever
\* its value, no step sends a login request.
C17_LoginOnce == [][granted # "none" => NoLoginSent]_vars

\* C17, amended: once a login request was answered with a token that is not
\* the empty string, no step sends a login request.
C17_LoginOnceNonEmpty == [][granted = "token" => NoLoginSent]_vars

\* An operation that began with the token granted and went through.
C17_Witness ==
  /\ granted = "token"
  /\ pc = "idle"
  /\ call.op = "delete"
  /\ Len(sent) = 4
  /\ \A i \in DOMAIN sent : ~IsLogin(sent[i]) /\ sent[i].req.bearer = <<client.AccessToken>>
  /\ ret = NoErr

\* C13: Present / CleanUp resolve the zone, then call AddRecord /
\* DeleteRecord with that zone and the name; when the zone is not resolved
\* nothing is sent; they return an error exactly when the resolution or the
\* client operation failed, and that error begins with "clouddns: ".
C13_AdapterWraps ==
  (call.via # "direct" /\ pc = "idle") =>
     /\ Failed(call.zerr) => sent = <<>> /\ errs = <<>>
     /\ ~Failed(call.zerr) =>
          /\ errs # <<>> /\ errs[1].step = "getDomainID"
          /\ \A i \in DOMAIN sent :
               /\ sent[i].req.url = <<apiBaseURL, "domain", "search">> => IsSearch(sent[i].req)
               /\ IsCreate(sent[i].req) =>
                    sent[i].req.body = txtRecord(domainID, call.name, call.value)
     /\ Failed(out) <=> (Failed(call.zerr) \/ Failed(ret))
     /\ Failed(out) =>
          /\ out.kind = "clouddns"
          /\ out.text = <<"clouddns: ">> \o (IF Failed(call.zerr) THEN call.zerr.text ELSE ret.text)

\* C18: against the provider, a DeleteRecord that succeeds right after an
\* AddRecord of the same zone and name that succeeded has deleted the record
\* which that AddRecord created, and the list is what it was before the
\* AddRecord, whatever records of that name it held.
C18_RoundTrip ==
  (/\ pc = "idle" /\ call.op = "delete" /\ ret = NoErr
   /\ trail.prev.call.op = "add" /\ trail.prev.ret = NoErr
   /\ trail.prev.call.zone = call.zone /\ trail.prev.call.name = call.name) =>
     /\ Len(trail.start) = Len(trail.prev.start) + 1
     /\ SubSeq(trail.start, 1, Len(trail.prev.start)) = trail.prev.start
     /\ recordID = trail.start[Len(trail.start)].id
     /\ recordID \notin IDsOf(trail.prev.start)
     /\ \E i \in DOMAIN sent : sent[i].req.method = "DELETE"
                               /\ sent[i].req.url = <<apiBaseURL, "record", recordID>>
     /\ records = trail.prev.start

\* A round trip over a list that held a TXT record of the same name.
C18_Witness ==
  /\ pc = "idle" /\ call.op = "delete" /\ ret = NoErr
  /\ trail.prev.call.op = "add" /\ trail.prev.ret = NoErr
  /\ trail.prev.call.name = call.name
  /\ \E i \in DOMAIN trail.prev.start :
       trail.prev.start[i].name = call.name /\ trail.prev.start[i].type = "TXT"
  /\ records = trail.prev.start

====
